---- MODULE Spec2Model ----
(***************************************************************************)
(* Model of the NotesCLI command line tool (src/cli.js): the notes store   *)
(* file under ~/.my_notes, loadNotes / saveNotes, the three commands       *)
(* create / list / delete and the argument dispatch of main().             *)
(***************************************************************************)
EXTENDS Integers, Sequences, FiniteSets, TLC

VARIABLES
    dirExists,  \* does ~/.my_notes exist
    file,       \* notes.json: [kind, notes]
    argv,       \* process.argv.slice(2) of the last command run
    pre,        \* notes.json as it was when the last command started
    exitCode,   \* exit status of the last command
    out,        \* console lines of the last command (kinds, in order)
    shown,      \* the note blocks printed by the last listNotes(), in order
    loaded,     \* what loadNotes() returned in the last command
    calls,      \* functions / fs primitives the last command went through
    listed,     \* ids printed by the latest `list`, by position in the store
    procs       \* concurrent invocations (SpecRace only)

vars == <<dirExists, file, argv, pre, exitCode, out, shown, loaded, calls, listed, procs>>

----------------------------------------------------------------------------
(* Bounds *)

MaxNotes == 2   \* longest store the CLI specifications start from or grow to
MaxLen == 3     \* longest store the listing specification sorts
MaxTime == 3    \* instants of the timestamps the listing specification sorts

----------------------------------------------------------------------------
(* Values *)

Undefined == "<undefined>"      \* a missing argv slot / a missing string field
NoteIds == {"a", "b"}           \* values crypto.randomUUID().slice(0, 8) can give
Clock == {1, 2}                 \* clock readings new Date() can give

\* !v for the strings the code tests
Falsy(v) == v \in {Undefined, ""}

\* A created_at value is a pair <<spelling, instant>>.
NoDate == <<"none", 0>>         \* created_at absent (or falsy)
NotADate == <<"text", 0>>       \* created_at that is text but no date

\* new Date().toISOString() for the clock reading t
ToISOString(t) == <<"iso", t>>

\* the same instant written another way (e.g. without milliseconds)
OtherSpelling(t) == <<"alt", t>>

NaN == <<>>

\* new Date(s).getTime(): <<ms>> or NaN; it never throws
GetTime(s) == IF s[1] \in {"iso", "alt"} THEN <<s[2]>> ELSE NaN

\* new Date(s).toLocaleString()
ToLocaleString(s) == IF GetTime(s) = NaN THEN <<"Invalid Date", 0>> ELSE <<"local", GetTime(s)[1]>>

Note(id, title, description, created_at) ==
    [id |-> id, title |-> title, description |-> description, created_at |-> created_at]

Absent == [kind |-> "absent", notes |-> <<>>]
JsonArray(notes) == [kind |-> "array", notes |-> notes]

----------------------------------------------------------------------------
(* Storage path resolver *)

\* getNotesDir(): creates the directory when missing; process.exit(1) when
\* mkdirSync throws
GetNotesDir(dir, mkdirOk) ==
    [ dir   |-> dir \/ mkdirOk,
      died  |-> ~dir /\ ~mkdirOk,
      out   |-> IF dir THEN <<>>
                ELSE IF mkdirOk THEN <<"Created notes directory">>
                ELSE <<"Error creating notes directory">>,
      calls |-> IF dir THEN {} ELSE {"mkdirSync"} ]

----------------------------------------------------------------------------
(* Note store *)

\* the draws loadNotes makes for the records of `notes`: a fresh id where the
\* id is missing, a clock reading where created_at is missing
FreshIdsFor(notes) ==
    { g \in [1 .. Len(notes) -> NoteIds \cup {Undefined}] :
        \A i \in 1 .. Len(notes) : (g[i] = Undefined) <=> ~Falsy(notes[i].id) }

\* (the readings of one run do not go backwards)
ClockReadsFor(notes) ==
    { g \in [1 .. Len(notes) -> Clock \cup {0}] :
        /\ \A i \in 1 .. Len(notes) : (g[i] = 0) <=> (notes[i].created_at # NoDate)
        /\ \A i, j \in 1 .. Len(notes) : (i < j /\ g[i] # 0 /\ g[j] # 0) => g[i] <= g[j] }

\* the notes.map(...) of loadNotes
Normalize(notes, ids, nows) ==
    [ i \in 1 .. Len(notes) |->
        [ notes[i] EXCEPT
            !.created_at = IF @ = NoDate THEN ToISOString(nows[i]) ELSE @,
            !.id = IF Falsy(@) THEN ids[i] ELSE @ ] ]

\* mutant of ParseNotes: a corrupt file is taken for an empty one without a word
ParseNotes_Silent(f, ids, nows) ==
    IF f.kind # "array"
      THEN [notes |-> <<>>, out |-> <<>>, calls |-> {"loadNotes"}]
      ELSE [notes |-> Normalize(f.notes, ids, nows), out |-> <<>>,
            calls |-> {"loadNotes", "readFileSync"}]

\* the body of loadNotes after getNotesFilePath()
ParseNotes(f, ids, nows) ==
    IF f.kind \in {"absent", "empty"}
      THEN [notes |-> <<>>, out |-> <<>>, calls |-> {"loadNotes"}]
    ELSE IF f.kind = "corrupt"
      THEN [notes |-> <<>>, out |-> <<"Warning: Notes file is corrupted">>,
            calls |-> {"loadNotes", "readFileSync"}]
    ELSE IF f.kind = "nonarray"
      THEN [notes |-> <<>>, out |-> <<"An error occurred while loading notes">>,
            calls |-> {"loadNotes", "readFileSync"}]
    ELSE [notes |-> Normalize(f.notes, ids, nows), out |-> <<>>,
          calls |-> {"loadNotes", "readFileSync"}]

\* loadNotes()
LoadNotes(dir, f, mkdirOk, ids, nows) ==
    LET d == GetNotesDir(dir, mkdirOk)
        p == ParseNotes(f, ids, nows)
    IN  IF d.died
          THEN [died |-> TRUE, dir |-> d.dir, notes |-> <<>>, out |-> d.out,
                calls |-> {"loadNotes"} \cup d.calls]
          ELSE [died |-> FALSE, dir |-> d.dir, notes |-> p.notes, out |-> d.out \o p.out,
                calls |-> p.calls \cup d.calls]

WriteOutcomes == {"ok", "EACCES"}

\* mutant of SaveNotes: the newest note is appended to whatever the file holds
\* now instead of the file being rewritten from memory
SaveNotes_Append(f, notes, wr) ==
    IF wr = "ok"
      THEN [file |-> JsonArray(IF notes = <<>> THEN <<>>
                               ELSE f.notes \o <<notes[Len(notes)]>>),
            out |-> <<>>, calls |-> {"saveNotes", "writeFileSync"}]
      ELSE [file |-> f, out |-> <<"An error occurred while saving notes">>,
            calls |-> {"saveNotes", "writeFileSync"}]

\* saveNotes(notes): the whole file is rewritten, or the write throws and is reported
SaveNotes(f, notes, wr) ==
    IF wr = "ok"
      THEN [file |-> JsonArray(notes), out |-> <<>>, calls |-> {"saveNotes", "writeFileSync"}]
      ELSE [file |-> f, out |-> <<"An error occurred while saving notes">>,
            calls |-> {"saveNotes", "writeFileSync"}]

----------------------------------------------------------------------------
(* Note operations *)

\* mutant of PushNewNote: unshift instead of push
PushNewNote_Front(notes, title, description, id, now) ==
    <<Note(id, title, description, ToISOString(now))>> \o notes

\* the newNote of createNote pushed onto the loaded notes
PushNewNote(notes, title, description, id, now) ==
    Append(notes, Note(id, title, description, ToISOString(now)))

\* mutant of FilterNotes: only the first match is removed
FilterNotes_FirstMatch(notes, noteId) ==
    IF \E i \in 1 .. Len(notes) : notes[i].id = noteId
      THEN LET first == CHOOSE i \in 1 .. Len(notes) :
                            notes[i].id = noteId /\ \A j \in 1 .. i - 1 : notes[j].id # noteId
           IN  SubSeq(notes, 1, first - 1) \o SubSeq(notes, first + 1, Len(notes))
      ELSE notes

\* notes.filter(note => note.id !== noteId)
FilterNotes(notes, noteId) == SelectSeq(notes, LAMBDA n : n.id # noteId)

\* mutant of Comparator: ascending, dateA.getTime() - dateB.getTime()
Comparator_Ascending(a, b) ==
    LET ta == GetTime(a.created_at)
        tb == GetTime(b.created_at)
    IN  IF ta = NaN \/ tb = NaN THEN NaN ELSE <<ta[1] - tb[1]>>

\* the comparator handed to notes.sort: dateB.getTime() - dateA.getTime()
Comparator(a, b) ==
    LET ta == GetTime(a.created_at)
        tb == GetTime(b.created_at)
    IN  IF ta = NaN \/ tb = NaN THEN NaN ELSE <<tb[1] - ta[1]>>

\* the catch branch of the comparator runs only when new Date(...) or getTime()
\* throws, and they throw for no value a JSON file can hold
ComparatorThrows(a, b) == FALSE

\* Array.prototype.sort's use of the comparator: a NaN result counts as +0
CallCompare(a, b) == IF Comparator(a, b) = NaN THEN 0 ELSE Comparator(a, b)[1]

\* Array.prototype.sort as node runs it for short arrays: the leading run is
\* found (and reversed when strictly descending), the rest is inserted by
\* binary search
RECURSIVE RunLength(_, _, _)
RunLength(work, descending, n) ==
    IF n >= Len(work) THEN n
    ELSE LET order == CallCompare(work[n + 1], work[n])
         IN  IF descending /\ order >= 0 THEN n
             ELSE IF ~descending /\ order < 0 THEN n
             ELSE RunLength(work, descending, n + 1)

Reverse(s) == [i \in 1 .. Len(s) |-> s[Len(s) + 1 - i]]

RECURSIVE FindSlot(_, _, _, _)
FindSlot(work, pivot, left, right) ==
    IF left >= right THEN left
    ELSE LET mid == left + ((right - left) \div 2)
         IN  IF CallCompare(pivot, work[mid]) < 0
               THEN FindSlot(work, pivot, left, mid)
               ELSE FindSlot(work, pivot, mid + 1, right)

RECURSIVE BinaryInsertionSort(_, _)
BinaryInsertionSort(work, start) ==
    IF start > Len(work) THEN work
    ELSE LET pivot == work[start]
             slot == FindSlot(work, pivot, 1, start)
         IN  BinaryInsertionSort(
                 SubSeq(work, 1, slot - 1) \o <<pivot>> \o SubSeq(work, slot, start - 1)
                     \o SubSeq(work, start + 1, Len(work)),
                 start + 1)

SortNotes(notes) ==
    IF Len(notes) < 2 THEN notes
    ELSE LET descending == CallCompare(notes[2], notes[1]) < 0
             run == RunLength(notes, descending, 2)
             work == IF descending
                       THEN Reverse(SubSeq(notes, 1, run)) \o SubSeq(notes, run + 1, Len(notes))
                       ELSE notes
         IN  BinaryInsertionSort(work, run + 1)

\* one printed block of listNotes
Render(note) ==
    [ pos         |-> note.pos,
      id          |-> IF Falsy(note.id) THEN "N/A" ELSE note.id,
      title       |-> IF Falsy(note.title) THEN "No Title" ELSE note.title,
      description |-> IF Falsy(note.description) THEN "No Description" ELSE note.description,
      created     |-> ToLocaleString(note.created_at) ]

\* the loaded notes tagged with their position in the store
Tagged(notes) ==
    [ i \in 1 .. Len(notes) |->
        [ pos |-> i, id |-> notes[i].id, title |-> notes[i].title,
          description |-> notes[i].description, created_at |-> notes[i].created_at ] ]

\* listNotes() after the load: the console lines and the printed blocks
ListOutput(notes) ==
    IF Len(notes) = 0
      THEN [out |-> <<"No notes found.">>, shown |-> <<>>]
      ELSE LET sorted == SortNotes(Tagged(notes))
               warn == IF \E i, j \in 1 .. Len(notes) : ComparatorThrows(notes[i], notes[j])
                         THEN <<"Warning: invalid created_at dates">> ELSE <<>>
           IN  [ out |-> warn \o <<"--- Your Notes ---">>,
                 shown |-> [k \in 1 .. Len(sorted) |-> Render(sorted[k])] ]

----------------------------------------------------------------------------
(* Command dispatcher *)

Arg(args, i) == IF i <= Len(args) THEN args[i] ELSE Undefined

\* args.indexOf(x), counted from 1; 0 when absent
IndexOf(args, x) ==
    IF \E i \in 1 .. Len(args) : args[i] = x
      THEN CHOOSE i \in 1 .. Len(args) : args[i] = x /\ \A j \in 1 .. i - 1 : args[j] # x
      ELSE 0

\* the description main() hands to createNote
ParseDescription(args) ==
    LET descIndex == IndexOf(args, "--desc")
    IN  IF descIndex # 0 /\ ~Falsy(Arg(args, descIndex + 1))
          THEN Arg(args, descIndex + 1) ELSE ""

\* the command lines tried
ArgVectors ==
    { <<>>, <<"help">>, <<"list">>,
      <<"create">>, <<"create", "">>, <<"create", "t">>,
      <<"create", "t", "--desc", "d">>, <<"create", "t", "--description", "d">>,
      <<"create", "--desc", "d">>,
      <<"delete">> }
    \cup { <<"delete", x>> : x \in NoteIds }

----------------------------------------------------------------------------
(* The commands, each run to completion: what main() does for one argv *)

\* a command that stops in main() with a usage error
UsageError(line) ==
    [ exit |-> 1, dir |-> dirExists, file |-> file, out |-> <<line>>, shown |-> <<>>,
      loaded |-> <<>>, calls |-> {} ]

\* createNote(title, description)
CreateNote(dir, f, title, description, mkdirOk, ids, nows, id, now, wr) ==
    LET l == LoadNotes(dir, f, mkdirOk, ids, nows)
        notes == PushNewNote(l.notes, title, description, id, now)
        s == SaveNotes(f, notes, wr)
    IN  IF l.died
          THEN [ exit |-> 1, dir |-> l.dir, file |-> f, out |-> l.out, shown |-> <<>>,
                 loaded |-> <<>>, calls |-> {"createNote"} \cup l.calls ]
          ELSE [ exit |-> 0, dir |-> l.dir, file |-> s.file,
                 out |-> l.out \o s.out \o <<"created successfully">>, shown |-> <<>>,
                 loaded |-> l.notes, calls |-> {"createNote"} \cup l.calls \cup s.calls ]

\* listNotes()
ListNotes(dir, f, mkdirOk, ids, nows) ==
    LET l == LoadNotes(dir, f, mkdirOk, ids, nows)
        o == ListOutput(l.notes)
    IN  IF l.died
          THEN [ exit |-> 1, dir |-> l.dir, file |-> f, out |-> l.out, shown |-> <<>>,
                 loaded |-> <<>>, calls |-> {"listNotes"} \cup l.calls ]
          ELSE [ exit |-> 0, dir |-> l.dir, file |-> f, out |-> l.out \o o.out,
                 shown |-> o.shown, loaded |-> l.notes, calls |-> {"listNotes"} \cup l.calls ]

\* mutant of DeleteNote: the filtered notes are saved whether or not one matched
DeleteNote_AlwaysSaves(dir, f, noteId, mkdirOk, ids, nows, wr) ==
    LET l == LoadNotes(dir, f, mkdirOk, ids, nows)
        notes == FilterNotes(l.notes, noteId)
        s == SaveNotes(f, notes, wr)
    IN  IF l.died
          THEN [ exit |-> 1, dir |-> l.dir, file |-> f, out |-> l.out, shown |-> <<>>,
                 loaded |-> <<>>, calls |-> {"deleteNote"} \cup l.calls ]
          ELSE [ exit |-> 0, dir |-> l.dir, file |-> s.file,
                 out |-> l.out \o s.out \o
                     <<IF Len(notes) < Len(l.notes) THEN "deleted successfully"
                       ELSE "No note found">>,
                 shown |-> <<>>, loaded |-> l.notes,
                 calls |-> {"deleteNote"} \cup l.calls \cup s.calls ]

\* deleteNote(noteId)
DeleteNote(dir, f, noteId, mkdirOk, ids, nows, wr) ==
    LET l == LoadNotes(dir, f, mkdirOk, ids, nows)
        notes == FilterNotes(l.notes, noteId)
        s == SaveNotes(f, notes, wr)
    IN  IF l.died
          THEN [ exit |-> 1, dir |-> l.dir, file |-> f, out |-> l.out, shown |-> <<>>,
                 loaded |-> <<>>, calls |-> {"deleteNote"} \cup l.calls ]
        ELSE IF Len(notes) < Len(l.notes)
          THEN [ exit |-> 0, dir |-> l.dir, file |-> s.file,
                 out |-> l.out \o s.out \o <<"deleted successfully">>, shown |-> <<>>,
                 loaded |-> l.notes, calls |-> {"deleteNote"} \cup l.calls \cup s.calls ]
          ELSE [ exit |-> 0, dir |-> l.dir, file |-> f,
                 out |-> l.out \o <<"No note found">>, shown |-> <<>>,
                 loaded |-> l.notes, calls |-> {"deleteNote"} \cup l.calls ]

\* the state after a command with the given argv and result
Ran(args, r) ==
    /\ argv' = args
    /\ pre' = file
    /\ dirExists' = r.dir
    /\ file' = r.file
    /\ exitCode' = r.exit
    /\ out' = r.out
    /\ shown' = r.shown
    /\ loaded' = r.loaded
    /\ calls' = r.calls
    /\ listed' = IF "listNotes" \in r.calls /\ r.exit = 0
                   THEN [age |-> 0, ids |-> [i \in 1 .. Len(r.loaded) |-> r.loaded[i].id]]
                 ELSE IF listed.age = 0 THEN [age |-> 1, ids |-> listed.ids]
                 ELSE [age |-> 2, ids |-> <<>>]
    /\ UNCHANGED procs

\* what the environment may answer: mkdirSync is only called when the
\* directory is missing
MkdirAnswers == IF dirExists THEN {TRUE} ELSE BOOLEAN

Create ==
    \E args \in ArgVectors :
        /\ Arg(args, 1) = "create"
        /\ LET title == Arg(args, 2)
               description == ParseDescription(args)
           IN  IF Falsy(title)
                 THEN Ran(args, UsageError("Error: 'create' command requires a title"))
                 ELSE /\ Len(file.notes) < MaxNotes
                      /\ \E mkdirOk \in MkdirAnswers, ids \in FreshIdsFor(file.notes),
                            nows \in ClockReadsFor(file.notes), id \in NoteIds,
                            now \in Clock, wr \in WriteOutcomes :
                             Ran(args, CreateNote(dirExists, file, title, description,
                                                  mkdirOk, ids, nows, id, now, wr))

List ==
    \E args \in ArgVectors :
        /\ Arg(args, 1) = "list"
        /\ \E mkdirOk \in MkdirAnswers, ids \in FreshIdsFor(file.notes),
              nows \in ClockReadsFor(file.notes) :
               Ran(args, ListNotes(dirExists, file, mkdirOk, ids, nows))

Delete ==
    \E args \in ArgVectors :
        /\ Arg(args, 1) = "delete"
        /\ LET idToDelete == Arg(args, 2)
           IN  IF Falsy(idToDelete)
                 THEN Ran(args, UsageError("Error: 'delete' command requires a note ID"))
                 ELSE \E mkdirOk \in MkdirAnswers, ids \in FreshIdsFor(file.notes),
                        nows \in ClockReadsFor(file.notes), wr \in WriteOutcomes :
                         Ran(args, DeleteNote(dirExists, file, idToDelete,
                                              mkdirOk, ids, nows, wr))

Help ==
    \E args \in ArgVectors :
        /\ Arg(args, 1) \notin {"create", "list", "delete"}
        /\ Ran(args, [ exit |-> 0, dir |-> dirExists, file |-> file,
                       out |-> <<"Welcome to the Node.js Note-Taking Tool!">>,
                       shown |-> <<>>, loaded |-> <<>>, calls |-> {} ])

----------------------------------------------------------------------------
(* The store files a command can find *)

\* records as the tool wrote them, or as older versions / an editor left them
StoredRecords(ids, stamps) ==
    { Note(id, "t", "", c) : id \in ids, c \in stamps }

RECURSIVE SeqsUpTo(_, _)
SeqsUpTo(S, n) ==
    IF n = 0 THEN {<<>>}
    ELSE LET shorter == SeqsUpTo(S, n - 1)
         IN  shorter \cup { Append(s, x) : s \in {t \in shorter : Len(t) = n - 1}, x \in S }

NoProcs == [st |-> <<>>, saved |-> <<>>]

InitObserved ==
    /\ argv = <<>>
    /\ pre = file
    /\ exitCode = 0
    /\ out = <<>>
    /\ shown = <<>>
    /\ loaded = <<>>
    /\ calls = {}
    /\ listed = [age |-> 2, ids |-> <<>>]

CliFiles ==
    { Absent, [kind |-> "empty", notes |-> <<>>], [kind |-> "corrupt", notes |-> <<>>],
      [kind |-> "nonarray", notes |-> <<>>] }
    \cup { JsonArray(s) :
             s \in SeqsUpTo(StoredRecords(NoteIds \cup {Undefined},
                                         {NoDate, ToISOString(1)}),
                            MaxNotes) }

Init ==
    /\ file \in CliFiles
    /\ dirExists \in (IF file = Absent THEN BOOLEAN ELSE {TRUE})
    /\ InitObserved
    /\ procs = NoProcs

Next == Create \/ List \/ Delete \/ Help

Spec == Init /\ [][Next]_vars

----------------------------------------------------------------------------
(* Listing alone, over stores of every timestamp shape *)

ListFiles ==
    { JsonArray(s) :
        s \in SeqsUpTo(StoredRecords({"a"},
                                     {NoDate, NotADate}
                                        \cup {ToISOString(t) : t \in 1 .. MaxTime}
                                        \cup {OtherSpelling(t) : t \in 1 .. MaxTime}),
                       MaxLen) }

InitList ==
    /\ file \in ListFiles
    /\ dirExists = TRUE
    /\ InitObserved
    /\ procs = NoProcs

NextList == List

SpecList == InitList /\ [][NextList]_vars

----------------------------------------------------------------------------
(* Two invocations of mutating commands on one store, interleaved between   *)
(* the load and the save of createNote / deleteNote (nothing locks the file) *)

Procs == {"p", "q"}

Mutations ==
    { args \in ArgVectors :
        /\ Arg(args, 1) \in {"create", "delete"}
        /\ ~Falsy(Arg(args, 2)) }

Idle == [ pc |-> "start", args |-> <<>>, base |-> Absent, seen |-> <<>>, notes |-> <<>>,
          save |-> FALSE, out |-> <<>>, exit |-> 0, before |-> 0 ]

\* main() up to and including the loadNotes() of createNote / deleteNote, and
\* the change made in memory
RaceLoad(p) ==
    /\ procs.st[p].pc = "start"
    /\ \E args \in Mutations, mkdirOk \in MkdirAnswers, ids \in FreshIdsFor(file.notes),
          nows \in ClockReadsFor(file.notes), id \in NoteIds, now \in Clock :
          LET l == LoadNotes(dirExists, file, mkdirOk, ids, nows)
              creating == Arg(args, 1) = "create"
              notes == IF creating
                         THEN PushNewNote(l.notes, Arg(args, 2), ParseDescription(args), id, now)
                         ELSE FilterNotes(l.notes, Arg(args, 2))
          IN  /\ creating => Len(file.notes) < MaxNotes
              /\ dirExists' = l.dir
              /\ procs' = [procs EXCEPT !.st[p] =
                    IF l.died
                      THEN [Idle EXCEPT !.pc = "done", !.args = args, !.out = l.out, !.exit = 1]
                      ELSE [ pc |-> "loaded", args |-> args, base |-> file, seen |-> l.notes,
                             notes |-> notes,
                             save |-> creating \/ Len(notes) < Len(l.notes),
                             out |-> l.out, exit |-> 0, before |-> Len(procs.saved) ]]
    /\ UNCHANGED <<file, argv, pre, exitCode, out, shown, loaded, calls, listed>>

\* the rest of createNote / deleteNote: saveNotes(notes) and the message
RaceSave(p) ==
    /\ procs.st[p].pc = "loaded"
    /\ LET me == procs.st[p]
       IN  IF me.save
             THEN \E wr \in WriteOutcomes :
                    LET s == SaveNotes(file, me.notes, wr)
                    IN  /\ file' = s.file
                        /\ procs' = [procs EXCEPT
                              !.st[p].pc = "done",
                              !.st[p].out = me.out \o s.out \o
                                  <<IF Arg(me.args, 1) = "create" THEN "created successfully"
                                    ELSE "deleted successfully">>,
                              !.saved = IF wr = "ok" THEN Append(@, p) ELSE @]
             ELSE /\ file' = file
                  /\ procs' = [procs EXCEPT !.st[p].pc = "done",
                                            !.st[p].out = me.out \o <<"No note found">>]
    /\ UNCHANGED <<dirExists, argv, pre, exitCode, out, shown, loaded, calls, listed>>

\* stores of current records and of records that lack an id
RaceFiles ==
    { Absent, [kind |-> "corrupt", notes |-> <<>>] }
    \cup { JsonArray(s) :
             s \in SeqsUpTo(StoredRecords(NoteIds \cup {Undefined}, {ToISOString(1)}),
                            MaxNotes) }

InitRace ==
    /\ file \in RaceFiles
    /\ dirExists \in (IF file = Absent THEN BOOLEAN ELSE {TRUE})
    /\ InitObserved
    /\ procs = [st |-> [p \in Procs |-> Idle], saved |-> <<>>]

NextRace == \E p \in Procs : RaceLoad(p) \/ RaceSave(p)

SpecRace == InitRace /\ [][NextRace]_vars

----------------------------------------------------------------------------
(* Vocabulary of the properties *)

Cmd == Arg(argv, 1)
Lines(o) == {o[i] : i \in 1 .. Len(o)}
SaveFailed == "An error occurred while saving notes" \in Lines(out)
LoadsWithoutError(f) == f.kind \in {"absent", "empty", "array"}
Ids(notes) == {notes[i].id : i \in 1 .. Len(notes)}

\* `result` is `notes` cut down to the positions in `keep`, order kept
IsRestriction(result, notes, keep) ==
    /\ Len(result) = Cardinality(keep)
    /\ \A i \in keep : result[Cardinality({j \in keep : j <= i})] = notes[i]

\* `new` is `old` with nothing changed but the missing ids and created_at
\* values filled in
Backfilled(old, new) ==
    /\ Len(new) = Len(old)
    /\ \A i \in 1 .. Len(old) :
          /\ new[i].title = old[i].title
          /\ new[i].description = old[i].description
          /\ IF Falsy(old[i].id) THEN new[i].id \in NoteIds ELSE new[i].id = old[i].id
          /\ IF old[i].created_at = NoDate
               THEN new[i].created_at \in {ToISOString(t) : t \in Clock}
               ELSE new[i].created_at = old[i].created_at

\* the store-wide invariants of the model's own bookkeeping
TypeOK ==
    /\ file.kind \in {"absent", "empty", "corrupt", "nonarray", "array"}
    /\ file.kind # "array" => file.notes = <<>>
    /\ file.kind # "absent" => dirExists
    /\ exitCode \in {0, 1}

----------------------------------------------------------------------------
(* C1 *)

----------------------------------------------------------------------------
(* C2 *)

\* C2 as stated: `delete X`, X the id of no stored note, leaves the store file
\* unchanged without saving, reports that no note was found and exits 0.
C2_UnknownIdChangesNothing ==
    ( /\ Cmd = "delete" /\ ~Falsy(Arg(argv, 2))
      /\ Arg(argv, 2) \notin Ids(pre.notes) )
    => /\ file = pre
       /\ "saveNotes" \notin calls
       /\ "No note found" \in Lines(out)
       /\ exitCode = 0

\* C2 amended: `delete X`, X the id of no note once loadNotes has filled in the
\* missing ids, in a run that gets its notes directory, leaves the store file
\* unchanged without saving, reports that no note was found and exits 0; a run
\* that cannot create the directory exits 1, the file untouched.
C2_UnknownLoadedIdChangesNothing ==
    ( /\ Cmd = "delete" /\ ~Falsy(Arg(argv, 2))
      /\ Arg(argv, 2) \notin Ids(loaded) )
    => /\ file = pre
       /\ "saveNotes" \notin calls
       /\ "writeFileSync" \notin calls
       /\ IF "Error creating notes directory" \in Lines(out)
            THEN exitCode = 1
            ELSE exitCode = 0 /\ "No note found" \in Lines(out)

\* a delete of an unknown id on a store that holds notes
C2_Witness ==
    /\ Cmd = "delete" /\ exitCode = 0
    /\ Len(pre.notes) > 0
    /\ Arg(argv, 2) \notin Ids(loaded)
    /\ "No note found" \in Lines(out)

----------------------------------------------------------------------------
(* C3 *)

\* the two documented shapes of `create title [--desc d]`
PlainCreate ==
    /\ Cmd = "create"
    /\ ~Falsy(Arg(argv, 2)) /\ Arg(argv, 2) # "--desc"
    /\ \/ Len(argv) = 2
       \/ Len(argv) = 4 /\ argv[3] = "--desc"

GivenDescription == IF Len(argv) = 4 THEN argv[4] ELSE ""

\* the note a create appended, as the claim describes it
IsNewNote(n) ==
    /\ n.title = argv[2]
    /\ n.description = GivenDescription
    /\ n.id \in NoteIds
    /\ n.created_at \in {ToISOString(t) : t \in Clock}

----------------------------------------------------------------------------
(* C4 and C9: the order of the listing *)

\* the instant of the k-th printed block, read off the note it prints
ShownTime(k) == GetTime(loaded[shown[k].pos].created_at)

\* every stored note is printed exactly once, as the note it is
ShowsEveryNoteOnce ==
    /\ Len(shown) = Len(pre.notes)
    /\ Len(loaded) = Len(pre.notes)
    /\ {shown[k].pos : k \in 1 .. Len(shown)} = 1 .. Len(pre.notes)
    /\ \A k \in 1 .. Len(shown) :
          /\ shown[k].id = loaded[shown[k].pos].id
          /\ shown[k].title = pre.notes[shown[k].pos].title
          /\ shown[k].created = ToLocaleString(loaded[shown[k].pos].created_at)

AllDatesParse(notes) == \A i \in 1 .. Len(notes) : GetTime(notes[i].created_at) # NaN

\* C4: listing a non-empty store whose created_at values all parse prints every
\* note exactly once, most recent first, notes of equal created_at in their
\* store order.
C4_ListedMostRecentFirst ==
    ( /\ Cmd = "list" /\ exitCode = 0
      /\ Len(pre.notes) > 0 /\ AllDatesParse(pre.notes) )
    => /\ ShowsEveryNoteOnce
       /\ \A k, l \in 1 .. Len(shown) :
             k < l => \/ ShownTime(k)[1] > ShownTime(l)[1]
                      \/ /\ ShownTime(k) = ShownTime(l)
                         /\ shown[k].pos < shown[l].pos

\* three notes stored oldest, newest, middle are printed newest, middle, oldest
C4_Witness ==
    /\ Cmd = "list" /\ exitCode = 0
    /\ Len(pre.notes) = 3 /\ AllDatesParse(pre.notes)
    /\ GetTime(pre.notes[1].created_at)[1] < GetTime(pre.notes[3].created_at)[1]
    /\ GetTime(pre.notes[3].created_at)[1] < GetTime(pre.notes[2].created_at)[1]
    /\ [k \in 1 .. 3 |-> shown[k].pos] = <<2, 3, 1>>

\* the store holds a created_at that is there but is no date
HasInvalidDate(notes) ==
    \E i \in 1 .. Len(notes) :
        notes[i].created_at # NoDate /\ GetTime(notes[i].created_at) = NaN

WarningsAboutDates ==
    Cardinality({i \in 1 .. Len(out) : out[i] = "Warning: invalid created_at dates"})

\* notes whose timestamps are equal, or both unparseable, keep their store order
TiesKeepStoreOrder ==
    \A k, l \in 1 .. Len(shown) :
        (k < l /\ ShownTime(k) = ShownTime(l)) => shown[k].pos < shown[l].pos

\* C9: listing a store that holds a created_at that does not parse does not
\* fail, warns exactly once about the invalid timestamp, prints every stored
\* note and keeps notes of equal or unparseable timestamps in store order.
\* (Stores of a single note, where nothing is compared, are left aside.)
C9_InvalidDateWarnedOnce ==
    ( /\ Cmd = "list" /\ pre.kind = "array" /\ HasInvalidDate(pre.notes)
      /\ Len(pre.notes) > 1 )
    => /\ exitCode = 0
       /\ ShowsEveryNoteOnce
       /\ TiesKeepStoreOrder
       /\ WarningsAboutDates = 1

\* C9 without the warning, to see what the listing itself does
C9_InvalidDateListedInOrder ==
    ( Cmd = "list" /\ pre.kind = "array" /\ HasInvalidDate(pre.notes) )
    => /\ exitCode = 0
       /\ ShowsEveryNoteOnce
       /\ TiesKeepStoreOrder

----------------------------------------------------------------------------
(* C5 *)

\* C5: a note that `list` printed under id X is removed from the persisted
\* store by `delete X` run as the very next command. (Runs whose write failed
\* are left aside.)
C5_ListedIdDeletes ==
    ( /\ Cmd = "delete" /\ listed.age = 1 /\ exitCode = 0 /\ ~SaveFailed )
    => \A i \in 1 .. Len(listed.ids) :
          listed.ids[i] = Arg(argv, 2)
            => /\ i <= Len(loaded) /\ loaded[i].id = Arg(argv, 2)
               /\ file.kind = "array"
               /\ Len(file.notes) < Len(pre.notes)

----------------------------------------------------------------------------
(* C6 *)

\* C6: on a store file of invalid JSON `list` warns of the corruption, reports
\* no notes and exits 0 with the file untouched; a create that follows and
\* writes its file leaves a JSON array holding exactly the new note.
C6_CorruptStoreRecovery ==
    /\ (Cmd = "list" /\ pre.kind = "corrupt")
         => /\ out = <<"Warning: Notes file is corrupted", "No notes found.">>
            /\ shown = <<>>
            /\ exitCode = 0
            /\ file = pre
            /\ "writeFileSync" \notin calls
    /\ (Cmd = "create" /\ ~Falsy(Arg(argv, 2)) /\ pre.kind = "corrupt" /\ ~SaveFailed)
         => /\ exitCode = 0
            /\ "Warning: Notes file is corrupted" \in Lines(out)
            /\ "created successfully" \in Lines(out)
            /\ file.kind = "array"
            /\ Len(file.notes) = 1
            /\ file.notes[1].title = argv[2]
            /\ file.notes[1].id \in NoteIds

\* a create right after a list of a corrupt store, leaving a one-note array
C6_Witness ==
    /\ Cmd = "create" /\ pre.kind = "corrupt" /\ listed.age = 1 /\ listed.ids = <<>>
    /\ file.kind = "array" /\ Len(file.notes) = 1

----------------------------------------------------------------------------
(* C7 *)

\* C7: `create "<title>" --description "<text>"`, the README's command line,
\* stores a note whose description is <text>.
C7_ReadmeDescriptionStored ==
    ( /\ Cmd = "create" /\ Len(argv) = 4 /\ argv[3] = "--description"
      /\ ~Falsy(argv[2]) /\ ~Falsy(argv[4])
      /\ exitCode = 0 /\ ~SaveFailed )
    => /\ file.kind = "array"
       /\ file.notes[Len(file.notes)].description = argv[4]

----------------------------------------------------------------------------
(* C8 *)

\* the command line gives no title: nothing, an empty string, or only the
\* description option after `create`
NoTitleGiven ==
    /\ Cmd = "create"
    /\ \/ Falsy(Arg(argv, 2))
       \/ Arg(argv, 2) = "--desc"

\* C8: a create without a title is a usage error: non-zero exit, createNote
\* never called, no file-system I/O, store unchanged. (Runs that fail to create
\* the notes directory are left aside.)
C8_NoTitleRejected ==
    ( NoTitleGiven /\ "Error creating notes directory" \notin Lines(out) )
    => /\ exitCode # 0
       /\ calls = {}
       /\ file = pre

----------------------------------------------------------------------------
(* C10 *)

BothDone == \A p \in Procs : procs.st[p].pc = "done"

\* both invocations loaded before either saved, and both wrote their file
RacedAndSaved ==
    /\ procs.st # <<>>
    /\ BothDone
    /\ \A p \in Procs : procs.st[p].save /\ procs.st[p].before = 0
    /\ Len(procs.saved) = Cardinality(Procs)

LastSaver == procs.saved[Len(procs.saved)]

Succeeded(p) ==
    \/ "created successfully" \in Lines(procs.st[p].out)
    \/ "deleted successfully" \in Lines(procs.st[p].out)

\* C10: when two mutating invocations both load before either saves, both
\* report success and the persisted store is what the last saver computed from
\* the state it loaded: the other mutation is gone (two creates on n notes
\* leave n + 1).
C10_LastSaveWins ==
    RacedAndSaved
    => /\ \A p \in Procs : Succeeded(p)
       /\ file = JsonArray(procs.st[LastSaver].notes)
       /\ \A p \in Procs : procs.st[p].base = procs.st[LastSaver].base
       /\ (\A p \in Procs : Arg(procs.st[p].args, 1) = "create")
            => \A p \in Procs : Len(file.notes) = Len(procs.st[p].seen) + 1

\* two creates on a one-note store that ended with two notes, not three
C10_Witness ==
    /\ RacedAndSaved
    /\ \A p \in Procs : Arg(procs.st[p].args, 1) = "create" /\ Len(procs.st[p].seen) = 1
    /\ Len(file.notes) = 2

====
